---- MODULE Spec2Model ----
(***************************************************************************)
(* Model of functions.py: ten pandas DataFrame cleaning functions and the  *)
(* clean_dataframe pipeline that chains eight of them.                     *)
(*                                                                         *)
(* Text is a sequence of one-character strings, so that indexing, case     *)
(* conversion, character replacement and splitting are computed.  A cell   *)
(* is null (NaN/None), text, or a number; a number is the exact rational   *)
(* p/q in lowest terms (the idealisation of a finite float64).  A          *)
(* DataFrame is a record of its column labels and its rows; DataFrames     *)
(* live in a heap of objects so that df.copy(), in-place column assignment *)
(* and rebinding are distinguished.                                        *)
(***************************************************************************)
EXTENDS Integers, Sequences, FiniteSets, TLC

VARIABLES heap, df, fn, column, pc, ret, exc, df2, called, df_in

vars == <<heap, df, fn, column, pc, ret, exc, df2, called, df_in>>

(***************************************************************************)
(* Bounds of the explored inputs.                                          *)
(***************************************************************************)
MaxRows == 2
MaxMeanRows == 3
MaxPipeRows == 3
MaxCols == 2

(***************************************************************************)
(* Python str operations used by the source.                               *)
(***************************************************************************)
ascii_uppercase == <<"A", "B", "C", "D", "E", "F", "G", "H", "I", "J", "K", "L", "M", "N", "O", "P", "Q", "R", "S", "T", "U", "V", "W", "X", "Y", "Z">>
ascii_lowercase == <<"a", "b", "c", "d", "e", "f", "g", "h", "i", "j", "k", "l", "m", "n", "o", "p", "q", "r", "s", "t", "u", "v", "w", "x", "y", "z">>

char_upper(c) ==
    IF \E i \in 1..Len(ascii_lowercase) : ascii_lowercase[i] = c
    THEN ascii_uppercase[CHOOSE i \in 1..Len(ascii_lowercase) : ascii_lowercase[i] = c]
    ELSE c

char_lower(c) ==
    IF \E i \in 1..Len(ascii_uppercase) : ascii_uppercase[i] = c
    THEN ascii_lowercase[CHOOSE i \in 1..Len(ascii_uppercase) : ascii_uppercase[i] = c]
    ELSE c

\* str.lower()
str_lower(s) == [i \in 1..Len(s) |-> char_lower(s[i])]

\* str.replace(old, new) for a one-character old and any text new
RECURSIVE str_replace(_, _, _)
str_replace(s, old, new) ==
    IF s = << >> THEN << >>
    ELSE (IF Head(s) = old THEN new ELSE <<Head(s)>>) \o str_replace(Tail(s), old, new)

\* str.split(sep) for a one-character sep: the list of segments
RECURSIVE str_split(_, _)
str_split(s, sep) ==
    IF \A i \in 1..Len(s) : s[i] # sep THEN <<s>>
    ELSE LET k == CHOOSE i \in 1..Len(s) : s[i] = sep /\ \A j \in 1..(i-1) : s[j] # sep
         IN  <<SubSeq(s, 1, k-1)>> \o str_split(SubSeq(s, k+1, Len(s)), sep)

(***************************************************************************)
(* Cells.                                                                  *)
(***************************************************************************)
NaN == [k |-> "null"]
Str(s) == [k |-> "str", s |-> s]
Num(p, q) == [k |-> "num", p |-> p, q |-> q]

\* pd.notnull / pd.isnull on a scalar
notnull(x) == x.k # "null"
isStr(x) == x.k = "str"
isNum(x) == x.k = "num"

RECURSIVE gcd(_, _)
gcd(a, b) == IF b = 0 THEN a ELSE gcd(b, a % b)

\* the number p/q (q > 0, p >= 0) in lowest terms
Ratio(p, q) == LET g == gcd(p, q) IN Num(p \div g, q \div g)

digits == <<"0", "1", "2", "3", "4", "5", "6", "7", "8", "9">>
isDigit(c) == \E i \in 1..Len(digits) : digits[i] = c
digitVal(c) == (CHOOSE i \in 1..Len(digits) : digits[i] = c) - 1

RECURSIVE pow10(_)
pow10(n) == IF n = 0 THEN 1 ELSE 10 * pow10(n - 1)

RECURSIVE digitsVal(_)
digitsVal(s) == IF s = << >> THEN 0 ELSE 10 * digitsVal(SubSeq(s, 1, Len(s) - 1)) + digitVal(s[Len(s)])

\* float(text) for unsigned decimal literals ("15", "15.5", "15.", ".5");
\* any other text of the explored inputs is rejected (ValueError).  The
\* explored texts hold no sign, exponent, blank, underscore, "nan" or "inf".
float_ok(s) ==
    LET dots == {i \in 1..Len(s) : s[i] = "."}
    IN  /\ Cardinality(dots) <= 1
        /\ \A i \in 1..Len(s) : isDigit(s[i]) \/ s[i] = "."
        /\ \E i \in 1..Len(s) : isDigit(s[i])

float_of(s) ==
    LET nodot == str_replace(s, ".", << >>)
        frac  == IF \E i \in 1..Len(s) : s[i] = "."
                 THEN Len(s) - (CHOOSE i \in 1..Len(s) : s[i] = ".")
                 ELSE 0
    IN  Ratio(digitsVal(nodot), pow10(frac))

\* int(text): decimal digits only
int_ok(s) == s # << >> /\ \A i \in 1..Len(s) : isDigit(s[i])

(***************************************************************************)
(* pandas objects.  A DataFrame is [columns, data]: the column labels and  *)
(* the rows, each row a sequence of cells aligned with the labels.  A      *)
(* Series is a sequence of cells.  An operation that can raise returns a   *)
(* record with the exception's name in exc ("" when it succeeds).          *)
(***************************************************************************)
DataFrame(cols, rows) == [columns |-> cols, data |-> rows]

has_column(t, c) == \E i \in 1..Len(t.columns) : t.columns[i] = c

get_loc(t, c) ==
    CHOOSE i \in 1..Len(t.columns) :
        t.columns[i] = c /\ \A j \in 1..(i-1) : t.columns[j] # c

\* df[column] for a present column whose label occurs once
getitem(t, c) == [i \in 1..Len(t.data) |-> t.data[i][get_loc(t, c)]]

\* df[column] = series, for a present column
setitem(t, c, s) ==
    [t EXCEPT !.data = [i \in 1..Len(t.data) |->
                          [t.data[i] EXCEPT ![get_loc(t, c)] = s[i]]]]

Ok(v) == [exc |-> "", v |-> v]
Err(e) == [exc |-> e, v |-> NaN]

\* Series.apply(f), given the outcome rs[i] of f on each element: the
\* elements are visited in order and the first exception propagates
Series_apply(rs) ==
    LET bad == {i \in 1..Len(rs) : rs[i].exc # ""}
    IN  IF bad = {} THEN Ok([i \in 1..Len(rs) |-> rs[i].v])
        ELSE Err(rs[CHOOSE i \in bad : \A j \in bad : i <= j].exc)

\* Series.replace(dict): a text cell equal to a key becomes the key's value
Series_replace(s, dict) ==
    [i \in 1..Len(s) |->
        IF isStr(s[i]) /\ s[i].s \in DOMAIN dict THEN Str(dict[s[i].s]) ELSE s[i]]

\* Series.str accessor: refused ("Can only use .str accessor with string
\* values") when the values are inferred as numbers.  A column holding only
\* nulls is taken to be of object dtype.
str_accessor_ok(s) ==
    (\E i \in 1..Len(s) : isNum(s[i])) => (\E i \in 1..Len(s) : isStr(s[i]))

\* variant: the first segment is kept
Series_str_split_get_first(s, pat, n) ==
    [i \in 1..Len(s) |->
        IF isStr(s[i])
        THEN LET parts == str_split(s[i].s, pat)
             IN  IF Len(parts) > n THEN Str(parts[n]) ELSE NaN
        ELSE NaN]

\* Series.str.split(pat): text becomes its list of segments, anything else NaN
\* Series.str[n] (0-based n): the element when the list is long enough, else NaN
Series_str_split_get(s, pat, n) ==
    [i \in 1..Len(s) |->
        IF isStr(s[i])
        THEN LET parts == str_split(s[i].s, pat)
             IN  IF Len(parts) > n THEN Str(parts[n + 1]) ELSE NaN
        ELSE NaN]

\* element conversion of Series.astype(float)
to_float(x) ==
    IF isStr(x) THEN (IF float_ok(x.s) THEN Ok(float_of(x.s)) ELSE Err("ValueError"))
    ELSE Ok(x)

\* element conversion of Series.astype(int): NaN cannot be converted, a
\* number is truncated, text goes through int()
to_int(x) ==
    IF isStr(x) THEN (IF int_ok(x.s) THEN Ok(Num(digitsVal(x.s), 1)) ELSE Err("ValueError"))
    ELSE IF isNum(x) THEN Ok(Num(x.p \div x.q, 1))
    ELSE Err("ValueError")

RECURSIVE Series_sum(_)
Series_sum(s) ==
    IF s = << >> THEN Num(0, 1)
    ELSE LET r == Series_sum(Tail(s))
             x == Head(s)
         IN  IF notnull(x) THEN Ratio(x.p * r.q + r.p * x.q, x.q * r.q) ELSE r

Series_count(s) == Cardinality({i \in 1..Len(s) : notnull(s[i])})

\* variant: the sum divided by the number of rows, nulls included
Series_mean_all_rows(s) ==
    IF Series_count(s) = 0 THEN NaN
    ELSE LET t == Series_sum(s) IN Ratio(t.p, t.q * Len(s))

\* Series.mean() of a float column: nulls are skipped; NaN when nothing is left
Series_mean(s) ==
    IF Series_count(s) = 0 THEN NaN
    ELSE LET t == Series_sum(s) IN Ratio(t.p, t.q * Series_count(s))

\* Series.fillna(value): filling with NaN leaves the nulls
Series_fillna(s, value) ==
    [i \in 1..Len(s) |-> IF notnull(s[i]) THEN s[i] ELSE value]

\* variant: how='any'
RECURSIVE dropna_any(_)
dropna_any(rows) ==
    IF rows = << >> THEN << >>
    ELSE LET r == Head(rows)
         IN  (IF \E j \in 1..Len(r) : ~notnull(r[j]) THEN << >> ELSE <<r>>)
             \o dropna_any(Tail(rows))

\* DataFrame.dropna(axis=0, how='all')
RECURSIVE dropna_all(_)
dropna_all(rows) ==
    IF rows = << >> THEN << >>
    ELSE LET r == Head(rows)
         IN  (IF \A j \in 1..Len(r) : ~notnull(r[j]) THEN << >> ELSE <<r>>)
             \o dropna_all(Tail(rows))

\* DataFrame.rename(columns=mapper)
rename_columns(cols, mapper) ==
    [i \in 1..Len(cols) |-> IF cols[i] \in DOMAIN mapper THEN mapper[cols[i]] ELSE cols[i]]

(***************************************************************************)
(* The heap of DataFrame objects: a reference is an index into heap.       *)
(* A call returns [heap, ret, exc]: ret is the returned reference, or 0    *)
(* with the exception's name in exc.                                       *)
(***************************************************************************)
\* variant: no copy, the same object under a second name
DataFrame_copy_alias(h, r) == [heap |-> h, ref |-> r]

DataFrame_copy(h, r) == [heap |-> Append(h, h[r]), ref |-> Len(h) + 1]

Return(h, r) == [heap |-> h, ret |-> r, exc |-> ""]
Raise(h, e) == [heap |-> h, ret |-> 0, exc |-> e]

\* df2[column] = series: in place on the object df2 names
assign_column(h, r, c, s) == [h EXCEPT ![r] = setitem(h[r], c, s)]

(***************************************************************************)
(* The functions of functions.py.                                          *)
(***************************************************************************)
\* variant: the column st is not renamed
clean_col_name_no_rename(h, r) ==
    LET c == DataFrame_copy(h, r)
        lowered == [i \in 1..Len(c.heap[c.ref].columns) |->
                       str_lower(c.heap[c.ref].columns[i])]
        replaced == [i \in 1..Len(lowered) |-> str_replace(lowered[i], " ", <<"_">>)]
        h2 == [c.heap EXCEPT ![c.ref].columns = replaced]
    IN  Return(Append(h2, h2[c.ref]), Len(h2) + 1)

clean_col_name(h, r) ==
    LET c == DataFrame_copy(h, r)
        lowered == [i \in 1..Len(c.heap[c.ref].columns) |->
                       str_lower(c.heap[c.ref].columns[i])]
        replaced == [i \in 1..Len(lowered) |-> str_replace(lowered[i], " ", <<"_">>)]
        h2 == [c.heap EXCEPT ![c.ref].columns = replaced]
        renamed == [h2[c.ref] EXCEPT
                       !.columns = rename_columns(replaced, <<"s", "t">> :> <<"s", "t", "a", "t", "e">>)]
    IN  Return(Append(h2, renamed), Len(h2) + 1)

gender_lambda(x) ==
    IF notnull(x)
    THEN IF isNum(x) THEN Err("TypeError")
         ELSE IF x.s = << >> THEN Err("IndexError")
         ELSE IF char_upper(x.s[1]) \in {"M", "F"} THEN Ok(Str(<<char_upper(x.s[1])>>))
         ELSE Ok(Str(<<"D">>))
    ELSE Ok(Str(<<"D">>))

clean_gender(h, r, col) ==
    LET c == DataFrame_copy(h, r)
    IN  IF ~has_column(c.heap[c.ref], col) THEN Raise(c.heap, "KeyError")
        ELSE LET x == getitem(c.heap[c.ref], col)
                 s == Series_apply([i \in 1..Len(x) |-> gender_lambda(x[i])])
             IN  IF s.exc # "" THEN Raise(c.heap, s.exc)
                 ELSE Return(assign_column(c.heap, c.ref, col, s.v), c.ref)

\* variant: an abbreviation mapped to another abbreviation
state_dict_chained ==
    (<<"A", "Z">> :> <<"C", "a", "l", "i">>) @@ (<<"C", "a", "l", "i">> :> <<"C", "a", "l", "i", "f", "o", "r", "n", "i", "a">>) @@ (<<"W", "A">> :> <<"W", "a", "s", "h", "i", "n", "g", "t", "o", "n">>)

state_dict ==
    (<<"A", "Z">> :> <<"A", "r", "i", "z", "o", "n", "a">>) @@ (<<"C", "a", "l", "i">> :> <<"C", "a", "l", "i", "f", "o", "r", "n", "i", "a">>) @@ (<<"W", "A">> :> <<"W", "a", "s", "h", "i", "n", "g", "t", "o", "n">>)

\* variant: a missing column is tolerated and the copy returned as it is
clean_state_lenient(h, r, col) ==
    LET c == DataFrame_copy(h, r)
    IN  IF ~has_column(c.heap[c.ref], col) THEN Return(c.heap, c.ref)
        ELSE Return(assign_column(c.heap, c.ref, col,
                        Series_replace(getitem(c.heap[c.ref], col), state_dict)), c.ref)

clean_state(h, r, col) ==
    LET c == DataFrame_copy(h, r)
    IN  IF ~has_column(c.heap[c.ref], col) THEN Raise(c.heap, "KeyError")
        ELSE Return(assign_column(c.heap, c.ref, col,
                        Series_replace(getitem(c.heap[c.ref], col), state_dict)), c.ref)

education_dict == (<<"B", "a", "c", "h", "e", "l", "o", "r", "s">> :> <<"B", "a", "c", "h", "e", "l", "o", "r">>)

clean_education(h, r, col) ==
    LET c == DataFrame_copy(h, r)
    IN  IF ~has_column(c.heap[c.ref], col) THEN Raise(c.heap, "KeyError")
        ELSE Return(assign_column(c.heap, c.ref, col,
                        Series_replace(getitem(c.heap[c.ref], col), education_dict)), c.ref)

clv_lambda(x) ==
    IF notnull(x)
    THEN IF isNum(x) THEN Err("AttributeError")
         ELSE Ok(Str(str_replace(x.s, "%", << >>)))
    ELSE Ok(x)

clean_clv(h, r, col) ==
    LET c == DataFrame_copy(h, r)
    IN  IF ~has_column(c.heap[c.ref], col) THEN Raise(c.heap, "KeyError")
        ELSE LET x == getitem(c.heap[c.ref], col)
                 s == Series_apply([i \in 1..Len(x) |-> clv_lambda(x[i])])
             IN  IF s.exc # "" THEN Raise(c.heap, s.exc)
                 ELSE Return(assign_column(c.heap, c.ref, col, s.v), c.ref)

car_classes_dict ==
    (<<"S", "p", "o", "r", "t", "s", " ", "C", "a", "r">> :> <<"L", "u", "x", "u", "r", "y">>) @@ (<<"L", "u", "x", "u", "r", "y", " ", "S", "U", "V">> :> <<"L", "u", "x", "u", "r", "y">>) @@ (<<"L", "u", "x", "u", "r", "y", " ", "C", "a", "r">> :> <<"L", "u", "x", "u", "r", "y">>)

clean_car_class(h, r, col) ==
    LET c == DataFrame_copy(h, r)
    IN  IF ~has_column(c.heap[c.ref], col) THEN Raise(c.heap, "KeyError")
        ELSE Return(assign_column(c.heap, c.ref, col,
                        Series_replace(getitem(c.heap[c.ref], col), car_classes_dict)), c.ref)

split_keep_middle(h, r, col) ==
    LET c == DataFrame_copy(h, r)
    IN  IF ~has_column(c.heap[c.ref], col) THEN Raise(c.heap, "KeyError")
        ELSE IF ~str_accessor_ok(getitem(c.heap[c.ref], col)) THEN Raise(c.heap, "AttributeError")
        ELSE Return(assign_column(c.heap, c.ref, col,
                        Series_str_split_get(getitem(c.heap[c.ref], col), "/", 1)), c.ref)

drop_null_rows(h, r) ==
    LET c == DataFrame_copy(h, r)
        dropped == [c.heap[c.ref] EXCEPT !.data = dropna_all(c.heap[c.ref].data)]
    IN  Return(Append(c.heap, dropped), Len(c.heap) + 1)

fill_with_mean(h, r, col) ==
    LET c == DataFrame_copy(h, r)
    IN  IF ~has_column(c.heap[c.ref], col) THEN Raise(c.heap, "KeyError")
        ELSE LET x == getitem(c.heap[c.ref], col)
                 s == Series_apply([i \in 1..Len(x) |-> to_float(x[i])])
             IN  IF s.exc # "" THEN Raise(c.heap, s.exc)
                 ELSE LET h2 == assign_column(c.heap, c.ref, col, s.v)
                          filled == Series_fillna(s.v, Series_mean(s.v))
                      IN  Return(assign_column(h2, c.ref, col, filled), c.ref)

num_var ==
    << <<"c", "u", "s", "t", "o", "m", "e", "r", "_", "l", "i", "f", "e", "t", "i", "m", "e", "_", "v", "a", "l", "u", "e">>, <<"i", "n", "c", "o", "m", "e">>, <<"m", "o", "n", "t", "h", "l", "y", "_", "p", "r", "e", "m", "i", "u", "m", "_", "a", "u", "t", "o">>,
       <<"n", "u", "m", "b", "e", "r", "_", "o", "f", "_", "o", "p", "e", "n", "_", "c", "o", "m", "p", "l", "a", "i", "n", "t", "s">>, <<"t", "o", "t", "a", "l", "_", "c", "l", "a", "i", "m", "_", "a", "m", "o", "u", "n", "t">> >>

\* df2[num_var].apply(lambda x: x.astype(int)): column by column in num_var order
RECURSIVE astype_int_columns(_, _)
astype_int_columns(t, cols) ==
    IF cols = << >> THEN Ok(t)
    ELSE LET x == getitem(t, Head(cols))
             s == Series_apply([i \in 1..Len(x) |-> to_int(x[i])])
         IN  IF s.exc # "" THEN [exc |-> s.exc, v |-> t]
             ELSE astype_int_columns(setitem(t, Head(cols), s.v), Tail(cols))

num_to_int(h, r) ==
    LET c == DataFrame_copy(h, r)
    IN  IF \E i \in 1..Len(num_var) : ~has_column(c.heap[c.ref], num_var[i])
        THEN Raise(c.heap, "KeyError")
        ELSE LET res == astype_int_columns(c.heap[c.ref], num_var)
             IN  IF res.exc # "" THEN Raise(c.heap, res.exc)
                 ELSE Return([c.heap EXCEPT ![c.ref] = res.v], c.ref)

\* default values of the column parameters
gender_column == <<"g", "e", "n", "d", "e", "r">>
state_column == <<"s", "t", "a", "t", "e">>
education_column == <<"e", "d", "u", "c", "a", "t", "i", "o", "n">>
clv_column == <<"c", "u", "s", "t", "o", "m", "e", "r", "_", "l", "i", "f", "e", "t", "i", "m", "e", "_", "v", "a", "l", "u", "e">>
car_class_column == <<"v", "e", "h", "i", "c", "l", "e", "_", "c", "l", "a", "s", "s">>
complaints_column == <<"n", "u", "m", "b", "e", "r", "_", "o", "f", "_", "o", "p", "e", "n", "_", "c", "o", "m", "p", "l", "a", "i", "n", "t", "s">>

\* the default column of each single-column function
DefaultColumn(name) ==
    CASE name = "clean_gender" -> gender_column
      [] name = "clean_state" -> state_column
      [] name = "clean_education" -> education_column
      [] name = "clean_clv" -> clv_column
      [] name = "clean_car_class" -> car_class_column
      [] name = "split_keep_middle" -> complaints_column
      [] name = "fill_with_mean" -> clv_column
      [] OTHER -> << >>

(***************************************************************************)
(* The explored inputs: the caller's DataFrame and the column arguments.   *)
(***************************************************************************)
RECURSIVE SeqsUpTo(_, _)
SeqsUpTo(S, n) ==
    IF n = 0 THEN {<< >>}
    ELSE LET shorter == SeqsUpTo(S, n - 1)
         IN  shorter \cup {Append(s, x) : s \in {t \in shorter : Len(t) = n - 1}, x \in S}

GenderCells == {NaN, Str(<< >>), Str(<<"F">>), Str(<<"m", "a", "l", "e">>), Str(<<"o", "t", "h", "e", "r">>)}
StateCells == {NaN, Str(<<"A", "Z">>), Str(<<"C", "a", "l", "i">>), Str(<<"O", "r", "e", "g", "o", "n">>)}
EducationCells == {NaN, Str(<<"B", "a", "c", "h", "e", "l", "o", "r", "s">>), Str(<<"B", "a", "c", "h", "e", "l", "o", "r">>), Str(<<"M", "a", "s", "t", "e", "r">>)}
CarClassCells == {NaN, Str(<<"S", "p", "o", "r", "t", "s", " ", "C", "a", "r">>), Str(<<"L", "u", "x", "u", "r", "y", " ", "S", "U", "V">>), Str(<<"S", "U", "V">>)}
ClvCells == {NaN, Str(<<"1", "5", ".", "5", "%">>), Str(<<"1", "5", ".", "5">>), Str(<<"4">>), Num(7, 1)}
ComplaintsCells == {NaN, Str(<<"1", "/", "5", "/", "0", "0">>), Str(<<"3", "/", "1", "0", "/", "0", "5">>), Str(<<"5">>)}

PairRows(A, B) == {<<a, b>> : a \in A, b \in B}

\* two-column tables: the first column takes every value of its kind, the
\* second a null or one value
StepTables ==
    {DataFrame(<<gender_column, state_column>>, rows) :
        rows \in SeqsUpTo(PairRows(GenderCells, {NaN, Str(<<"A", "Z">>)}), MaxRows)}
    \cup
    {DataFrame(<<state_column, education_column>>, rows) :
        rows \in SeqsUpTo(PairRows(StateCells, {NaN, Str(<<"B", "a", "c", "h", "e", "l", "o", "r", "s">>)}), MaxRows)}
    \cup
    {DataFrame(<<education_column, car_class_column>>, rows) :
        rows \in SeqsUpTo(PairRows(EducationCells, {NaN, Str(<<"L", "u", "x", "u", "r", "y", " ", "C", "a", "r">>)}), MaxRows)}
    \cup
    {DataFrame(<<car_class_column, gender_column>>, rows) :
        rows \in SeqsUpTo(PairRows(CarClassCells, {NaN, Str(<<"F">>)}), MaxRows)}
    \cup
    {DataFrame(<<complaints_column, gender_column>>, rows) :
        rows \in SeqsUpTo(PairRows(ComplaintsCells, {NaN, Str(<<"F">>)}), MaxRows)}
    \cup
    {DataFrame(<<clv_column, complaints_column>>, rows) :
        rows \in SeqsUpTo(PairRows(ClvCells, {Str(<<"1", "/", "5", "/", "0", "0">>)}), MaxMeanRows)}

\* rows of a customer file: state, gender, education, lifetime value, complaints
CustomerRows ==
    { <<NaN, NaN, NaN, NaN, NaN>>,
      <<Str(<<"A", "Z">>), Str(<<"f", "e", "m", "a", "l", "e">>), Str(<<"B", "a", "c", "h", "e", "l", "o", "r", "s">>), Str(<<"1", "5", ".", "5", "%">>), Str(<<"1", "/", "5", "/", "0", "0">>)>>,
      <<Str(<<"C", "a", "l", "i">>), NaN, Str(<<"B", "a", "c", "h", "e", "l", "o", "r">>), NaN, Str(<<"3", "/", "1", "0", "/", "0", "5">>)>>,
      <<Str(<<"W", "A">>), Str(<<"M">>), Str(<<"M", "a", "s", "t", "e", "r">>), Str(<<"4", "%">>), NaN>>,
      <<Str(<<"O", "r", "e", "g", "o", "n">>), Str(<< >>), Str(<<"M", "a", "s", "t", "e", "r">>), Str(<<"4", "%">>), Str(<<"1", "/", "0", "/", "0", "0">>)>>,
      <<Str(<<"O", "r", "e", "g", "o", "n">>), Str(<<"F">>), Str(<<"M", "a", "s", "t", "e", "r">>), Str(<<"x", "%">>), Str(<<"1", "/", "0", "/", "0", "0">>)>>,
      <<Str(<<"O", "r", "e", "g", "o", "n">>), Str(<<"F">>), Str(<<"M", "a", "s", "t", "e", "r">>), Num(7, 1), Str(<<"1", "/", "0", "/", "0", "0">>)>> }

FewCustomerRows ==
    { <<Str(<<"C", "a", "l", "i">>), NaN, Str(<<"B", "a", "c", "h", "e", "l", "o", "r">>), NaN, Str(<<"3", "/", "1", "0", "/", "0", "5">>)>>,
      <<Str(<<"A", "Z">>), Str(<<"f", "e", "m", "a", "l", "e">>), Str(<<"B", "a", "c", "h", "e", "l", "o", "r", "s">>), Str(<<"1", "5", ".", "5", "%">>), Str(<<"1", "/", "5", "/", "0", "0">>)>> }

RawHeader ==
    << <<"S", "T">>, <<"G", "E", "N", "D", "E", "R">>, <<"E", "d", "u", "c", "a", "t", "i", "o", "n">>, <<"C", "u", "s", "t", "o", "m", "e", "r", " ", "L", "i", "f", "e", "t", "i", "m", "e", " ", "V", "a", "l", "u", "e">>,
       <<"N", "u", "m", "b", "e", "r", " ", "o", "f", " ", "O", "p", "e", "n", " ", "C", "o", "m", "p", "l", "a", "i", "n", "t", "s">> >>
CleanHeader ==
    << state_column, gender_column, education_column, clv_column, complaints_column >>

\* a sequence without its n-th element
Without(s, n) == SubSeq(s, 1, n - 1) \o SubSeq(s, n + 1, Len(s))

\* the header as in a raw file with every kind of row; the clean header and a
\* header without the education column with two kinds of row
CustomerTables ==
    {DataFrame(RawHeader, rows) : rows \in SeqsUpTo(CustomerRows, MaxPipeRows)}
    \cup
    {DataFrame(CleanHeader, rows) : rows \in SeqsUpTo(FewCustomerRows, MaxPipeRows)}
    \cup
    {DataFrame(Without(RawHeader, 3), rows) :
        rows \in SeqsUpTo({Without(r, 3) : r \in FewCustomerRows}, MaxPipeRows)}

\* labels of which some normalise to the same name; none normalises to gender,
\* so that no function reads a column through a label that occurs twice
ColumnNames ==
    {<<"S", "T">>, <<"s", "t">>, <<"S", "t", "a", "t", "e">>, <<"s", "t", "a", "t", "e">>, <<"C", "u", "s", "t", "o", "m", "e", "r", " ", "I", "d">>, <<"c", "u", "s", "t", "o", "m", "e", "r", "_", "i", "d">>, <<"I", "n", "c", "o", "m", "e">>}

Headers ==
    {hd \in SeqsUpTo(ColumnNames, MaxCols) :
        hd # << >> /\ \A i, j \in 1..Len(hd) : i # j => hd[i] # hd[j]}

NamedTables ==
    UNION {{DataFrame(hd, << >>),
            DataFrame(hd, <<[i \in 1..Len(hd) |-> Str(<<"v">>)]>>),
            DataFrame(hd, <<[i \in 1..Len(hd) |-> NaN], [i \in 1..Len(hd) |-> Str(<<"v">>)]>>)} :
           hd \in Headers}

NumericRows ==
    { <<Num(7, 2), Num(3, 1), Num(0, 1), Num(5, 1), Num(9, 4)>>,
      <<Str(<<"1", "5">>), Num(3, 1), Num(1, 1), Str(<<"5">>), Num(2, 1)>>,
      <<Num(4, 1), NaN, Num(1, 1), Num(0, 1), Num(2, 1)>> }

NumericTables == {DataFrame(num_var, rows) : rows \in SeqsUpTo(NumericRows, MaxRows)}

\* the column argument of a call: the function's default, or the label of
\* the table's first column
ColumnArgs(name, t) == {DefaultColumn(name), t.columns[1]}

Inputs == StepTables \cup CustomerTables \cup NamedTables \cup NumericTables

(***************************************************************************)
(* The caller holds one DataFrame, df, and calls one function on it.       *)
(* pc is "ready" before the call, "done" after it has returned or raised;  *)
(* inside clean_dataframe pc names the next line.  called lists the        *)
(* functions clean_dataframe has called; df_in is the caller's table as it *)
(* was before the call.                                                    *)
(***************************************************************************)
Init ==
    /\ \E t \in Inputs : heap = <<t>> /\ df_in = t
    /\ df = 1
    /\ fn = ""
    /\ column = << >>
    /\ pc = "ready"
    /\ ret = 0
    /\ exc = ""
    /\ df2 = 0
    /\ called = << >>

Call(name, col, res) ==
    /\ pc = "ready"
    /\ pc' = "done"
    /\ fn' = name
    /\ column' = col
    /\ heap' = res.heap
    /\ ret' = res.ret
    /\ exc' = res.exc
    /\ UNCHANGED <<df, df2, called, df_in>>

CallCleanColName == Call("clean_col_name", << >>, clean_col_name(heap, df))

CallCleanGender ==
    \E col \in ColumnArgs("clean_gender", heap[df]) : Call("clean_gender", col, clean_gender(heap, df, col))

CallCleanState ==
    \E col \in ColumnArgs("clean_state", heap[df]) : Call("clean_state", col, clean_state(heap, df, col))

CallCleanEducation ==
    \E col \in ColumnArgs("clean_education", heap[df]) : Call("clean_education", col, clean_education(heap, df, col))

CallCleanClv ==
    \E col \in ColumnArgs("clean_clv", heap[df]) : Call("clean_clv", col, clean_clv(heap, df, col))

CallCleanCarClass ==
    \E col \in ColumnArgs("clean_car_class", heap[df]) : Call("clean_car_class", col, clean_car_class(heap, df, col))

CallSplitKeepMiddle ==
    \E col \in ColumnArgs("split_keep_middle", heap[df]) : Call("split_keep_middle", col, split_keep_middle(heap, df, col))

CallDropNullRows == Call("drop_null_rows", << >>, drop_null_rows(heap, df))

CallFillWithMean ==
    \E col \in ColumnArgs("fill_with_mean", heap[df]) : Call("fill_with_mean", col, fill_with_mean(heap, df, col))

CallNumToInt == Call("num_to_int", << >>, num_to_int(heap, df))

(***************************************************************************)
(* clean_dataframe, line by line.  A line that raises ends the call: the   *)
(* exception reaches the caller and nothing is returned.                   *)
(***************************************************************************)
clean_dataframe_L197 ==
    /\ pc = "ready"
    /\ LET c == DataFrame_copy(heap, df)
       IN  heap' = c.heap /\ df2' = c.ref
    /\ fn' = "clean_dataframe"
    /\ pc' = "l198"
    /\ UNCHANGED <<df, column, ret, exc, called, df_in>>

Line(at, next, name, res) ==
    /\ pc = at
    /\ heap' = res.heap
    /\ called' = Append(called, name)
    /\ IF res.exc = ""
       THEN df2' = res.ret /\ pc' = next /\ UNCHANGED <<ret, exc>>
       ELSE pc' = "done" /\ exc' = res.exc /\ ret' = 0 /\ UNCHANGED df2
    /\ UNCHANGED <<df, fn, column, df_in>>

clean_dataframe_L198 == Line("l198", "l199", "clean_col_name", clean_col_name(heap, df))

clean_dataframe_L199 == Line("l199", "l200", "drop_null_rows", drop_null_rows(heap, df2))

clean_dataframe_L200 ==
    Line("l200", "l201", "clean_gender", clean_gender(heap, df2, gender_column))

clean_dataframe_L201 ==
    Line("l201", "l202", "clean_state", clean_state(heap, df2, state_column))

clean_dataframe_L202 ==
    Line("l202", "l203", "clean_education", clean_education(heap, df2, education_column))

\* variant: the vehicle class cleaner wired in place of the lifetime value cleaner
clean_dataframe_L203_car_class ==
    Line("l203", "l204", "clean_car_class", clean_car_class(heap, df2, car_class_column))

clean_dataframe_L203 ==
    Line("l203", "l204", "clean_clv", clean_clv(heap, df2, clv_column))

clean_dataframe_L204 ==
    Line("l204", "l205", "split_keep_middle", split_keep_middle(heap, df2, complaints_column))

clean_dataframe_L205 ==
    Line("l205", "l206", "fill_with_mean", fill_with_mean(heap, df2, clv_column))

clean_dataframe_L206 ==
    /\ pc = "l206"
    /\ ret' = df2
    /\ pc' = "done"
    /\ UNCHANGED <<heap, df, fn, column, exc, df2, called, df_in>>

Next ==
    \/ CallCleanColName
    \/ CallCleanGender
    \/ CallCleanState
    \/ CallCleanEducation
    \/ CallCleanClv
    \/ CallCleanCarClass
    \/ CallSplitKeepMiddle
    \/ CallDropNullRows
    \/ CallFillWithMean
    \/ CallNumToInt
    \/ clean_dataframe_L197
    \/ clean_dataframe_L198
    \/ clean_dataframe_L199
    \/ clean_dataframe_L200
    \/ clean_dataframe_L201
    \/ clean_dataframe_L202
    \/ clean_dataframe_L203
    \/ clean_dataframe_L204
    \/ clean_dataframe_L205
    \/ clean_dataframe_L206

Spec == Init /\ [][Next]_vars

(***************************************************************************)
(* Properties.                                                             *)
(***************************************************************************)
TypeOK ==
    /\ pc \in {"ready", "done", "l198", "l199", "l200", "l201", "l202", "l203",
               "l204", "l205", "l206"}
    /\ df = 1
    /\ ret \in 0..Len(heap)
    /\ (pc = "done") => ((exc = "") <=> (ret # 0))

\* the call of f is over
Done(f) == pc = "done" /\ fn = f

Returned(f) == Done(f) /\ ret # 0

\* the target column of the caller's table, and of the returned table
InColumn == getitem(df_in, column)
OutColumn == getitem(heap[ret], column)

TextOrNull(s) == \A i \in 1..Len(s) : ~isNum(s[i])

\* C1: clean_gender succeeds on every column of text and null cells, and each
\* output cell is M or F when the upper-cased first character of the input is
\* M or F, and D otherwise (null, empty text, any other text).
GenderOf(x) ==
    IF isStr(x) /\ x.s # << >> /\ char_upper(x.s[1]) \in {"M", "F"}
    THEN Str(<<char_upper(x.s[1])>>)
    ELSE Str(<<"D">>)

C1_GenderTotal ==
    (Done("clean_gender") /\ has_column(df_in, column) /\ TextOrNull(InColumn))
    => /\ ret # 0
       /\ exc = ""
       /\ \A i \in 1..Len(InColumn) : OutColumn[i] = GenderOf(InColumn[i])

\* C2: fill_with_mean on a column without any non-null value raises and
\* returns nothing; it never returns a table with a null in the target column.
C2_EmptyColumnRaises ==
    /\ (Done("fill_with_mean") /\ has_column(df_in, column)
          /\ \A i \in 1..Len(InColumn) : ~notnull(InColumn[i]))
       => (exc # "" /\ ret = 0)
    /\ Returned("fill_with_mean")
       => \A i \in 1..Len(OutColumn) : notnull(OutColumn[i])

\* C3: when the target column holds at least one non-null value and no text
\* that float() rejects, fill_with_mean returns a table whose target column
\* has no null, where each non-null input cell keeps its numeric value and
\* each null input cell holds the arithmetic mean of the non-null input values.
NumericValue(x) == IF isStr(x) THEN float_of(x.s) ELSE x

SameNumber(a, b) == isNum(a) /\ isNum(b) /\ a.p * b.q = b.p * a.q

\* the product of the denominators of the non-null cells of s
RECURSIVE CommonDenominator(_)
CommonDenominator(s) ==
    IF s = << >> THEN 1
    ELSE (IF notnull(Head(s)) THEN NumericValue(Head(s)).q ELSE 1)
         * CommonDenominator(Tail(s))

\* m is the arithmetic mean of the non-null cells of s:  m * n = sum, with
\* every term scaled by the common denominator d
RECURSIVE ScaledSum(_, _)
ScaledSum(s, d) ==
    IF s = << >> THEN 0
    ELSE (IF notnull(Head(s))
          THEN NumericValue(Head(s)).p * (d \div NumericValue(Head(s)).q)
          ELSE 0)
         + ScaledSum(Tail(s), d)

IsMeanOf(m, s) ==
    /\ isNum(m)
    /\ m.p * Series_count(s) * CommonDenominator(s) = m.q * ScaledSum(s, CommonDenominator(s))

Parsable(s) == \A i \in 1..Len(s) : isStr(s[i]) => float_ok(s[i].s)

C3_MeanImputed ==
    (Done("fill_with_mean") /\ has_column(df_in, column)
        /\ Parsable(InColumn) /\ \E i \in 1..Len(InColumn) : notnull(InColumn[i]))
    => /\ ret # 0
       /\ exc = ""
       /\ Len(OutColumn) = Len(InColumn)
       /\ \A i \in 1..Len(InColumn) :
            /\ notnull(OutColumn[i])
            /\ notnull(InColumn[i]) => SameNumber(OutColumn[i], NumericValue(InColumn[i]))
            /\ ~notnull(InColumn[i]) => IsMeanOf(OutColumn[i], InColumn)

C3_Witness ==
    /\ Returned("fill_with_mean")
    /\ has_column(df_in, column)
    /\ \E i, j, k \in 1..Len(InColumn) :
          /\ ~notnull(InColumn[i])
          /\ isStr(InColumn[j])
          /\ isNum(InColumn[k])
          /\ OutColumn[i] = Num(45, 4)

\* the result of one function, with its default column, on the table t alone
Apply(name, t, col) ==
    LET r == CASE name = "clean_col_name" -> clean_col_name(<<t>>, 1)
               [] name = "drop_null_rows" -> drop_null_rows(<<t>>, 1)
               [] name = "clean_gender" -> clean_gender(<<t>>, 1, col)
               [] name = "clean_state" -> clean_state(<<t>>, 1, col)
               [] name = "clean_education" -> clean_education(<<t>>, 1, col)
               [] name = "clean_clv" -> clean_clv(<<t>>, 1, col)
               [] name = "clean_car_class" -> clean_car_class(<<t>>, 1, col)
               [] name = "split_keep_middle" -> split_keep_middle(<<t>>, 1, col)
               [] name = "fill_with_mean" -> fill_with_mean(<<t>>, 1, col)
               [] name = "num_to_int" -> num_to_int(<<t>>, 1)
    IN  [exc |-> r.exc, t |-> IF r.exc = "" THEN r.heap[r.ret] ELSE t]

EightSteps ==
    << "clean_col_name", "drop_null_rows", "clean_gender", "clean_state",
       "clean_education", "clean_clv", "split_keep_middle", "fill_with_mean" >>

\* the steps applied in order, each on the previous output, up to the first
\* that raises: n is the number of steps that were run
RECURSIVE RunSteps(_, _)
RunSteps(t, steps) ==
    IF steps = << >> THEN [exc |-> "", t |-> t, n |-> 0]
    ELSE LET r == Apply(Head(steps), t, DefaultColumn(Head(steps)))
         IN  IF r.exc # "" THEN [exc |-> r.exc, t |-> t, n |-> 1]
             ELSE LET rest == RunSteps(r.t, Tail(steps))
                  IN  [rest EXCEPT !.n = rest.n + 1]

\* C4: clean_dataframe calls exactly the eight steps in their order, each on
\* the previous step's output; its result is that of the composition, and the
\* first step that raises ends the run: no later step is called and no table
\* is returned.  clean_car_class and num_to_int are never called.
C4_PipelineOrder ==
    /\ fn = "clean_dataframe"
       => /\ Len(called) <= Len(EightSteps)
          /\ called = SubSeq(EightSteps, 1, Len(called))
    /\ Done("clean_dataframe")
       => LET e == RunSteps(df_in, EightSteps)
          IN  /\ exc = e.exc
              /\ Len(called) = e.n
              /\ exc = "" => (ret # 0 /\ heap[ret] = e.t)
              /\ exc # "" => ret = 0

C4_Witness ==
    /\ Returned("clean_dataframe")
    /\ Len(called) = 8
    /\ Len(heap[ret].data) = 2
    /\ Len(df_in.data) = 3
    /\ heap[ret].columns # df_in.columns

\* C5: whatever function is called and whether it returns or raises, the
\* caller's table is as it was before the call.
C5_CallerTableUnchanged == heap[df] = df_in

C5_Witness == pc = "done" /\ ret # 0 /\ ret # df /\ heap[ret] # df_in

\* C6: split_keep_middle, on a column of text and null cells, succeeds; a text
\* with at least two '/'-delimited segments becomes its second segment, and a
\* text without '/' or a null becomes null.
Slashes(s) == {i \in 1..Len(s) : s[i] = "/"}

SecondSegment(s) ==
    LET first == CHOOSE i \in Slashes(s) : \A j \in Slashes(s) : i <= j
        later == {i \in Slashes(s) : i > first}
        stop  == IF later = {} THEN Len(s) + 1
                 ELSE CHOOSE i \in later : \A j \in later : i <= j
    IN  SubSeq(s, first + 1, stop - 1)

MiddleOf(x) ==
    IF isStr(x) /\ Slashes(x.s) # {} THEN Str(SecondSegment(x.s)) ELSE NaN

MappingKeys(name) ==
    CASE name = "clean_state" -> {<<"A", "Z">>, <<"C", "a", "l", "i">>, <<"W", "A">>}
      [] name = "clean_education" -> {<<"B", "a", "c", "h", "e", "l", "o", "r", "s">>}
      [] name = "clean_car_class" -> {<<"S", "p", "o", "r", "t", "s", " ", "C", "a", "r">>, <<"L", "u", "x", "u", "r", "y", " ", "S", "U", "V">>, <<"L", "u", "x", "u", "r", "y", " ", "C", "a", "r">>}

C7_CleanersIdempotent ==
    /\ (fn \in {"clean_gender", "clean_state", "clean_education", "clean_car_class"}
          /\ pc = "done" /\ ret # 0)
       => LET again == Apply(fn, heap[ret], column)
          IN  again.exc = "" /\ again.t = heap[ret]
    /\ (fn \in {"clean_state", "clean_education", "clean_car_class"}
          /\ pc = "done" /\ has_column(df_in, column))
       => /\ ret # 0
          /\ \A i \in 1..Len(InColumn) :
                ~(isStr(InColumn[i]) /\ InColumn[i].s \in MappingKeys(fn))
                => OutColumn[i] = InColumn[i]

C7_Witness ==
    /\ Returned("clean_state")
    /\ column = state_column
    /\ has_column(df_in, column)
    /\ \E i, j \in 1..Len(InColumn) :
          /\ InColumn[i] = Str(<<"C", "a", "l", "i">>) /\ OutColumn[i] = Str(<<"C", "a", "l", "i", "f", "o", "r", "n", "i", "a">>)
          /\ InColumn[j] = Str(<<"O", "r", "e", "g", "o", "n">>) /\ OutColumn[j] = Str(<<"O", "r", "e", "g", "o", "n">>)

\* C8: drop_null_rows returns exactly the input rows that have a non-null
\* cell, in their order (a row goes if and only if all its cells are null);
\* every other step that returns a table returns as many rows as it was given.
HasNonNull(row) == \E j \in 1..Len(row) : notnull(row[j])

C8_OnlyNullRowsDropped ==
    /\ Done("drop_null_rows")
       => /\ ret # 0
          /\ heap[ret].columns = df_in.columns
          /\ heap[ret].data = SelectSeq(df_in.data, HasNonNull)
    /\ (pc = "done" /\ ret # 0 /\ fn \notin {"drop_null_rows", "clean_dataframe"})
       => Len(heap[ret].data) = Len(df_in.data)

C8_Witness ==
    /\ Returned("drop_null_rows")
    /\ Len(df_in.data) = 2
    /\ ~HasNonNull(df_in.data[1])
    /\ Len(heap[ret].data) = 1
    /\ \E j \in 1..Len(df_in.data[2]) : ~notnull(df_in.data[2][j])

\* C9: a single-column step called with a column the table does not have
\* raises KeyError, returns nothing and leaves the caller's table as it was;
\* when the column is there and the step returns, the returned table differs
\* from the input in that column only.
SingleColumnSteps ==
    {"clean_gender", "clean_state", "clean_education", "clean_car_class",
     "clean_clv", "split_keep_middle", "fill_with_mean"}

C9_MissingColumnRaises ==
    (pc = "done" /\ fn \in SingleColumnSteps)
    => /\ ~has_column(df_in, column)
          => (exc = "KeyError" /\ ret = 0 /\ heap[df] = df_in)
       /\ (has_column(df_in, column) /\ ret # 0)
          => /\ heap[ret].columns = df_in.columns
             /\ Len(heap[ret].data) = Len(df_in.data)
             /\ \A i \in 1..Len(df_in.data) : \A j \in 1..Len(df_in.columns) :
                   df_in.columns[j] # column => heap[ret].data[i][j] = df_in.data[i][j]

C9_Witness ==
    /\ Done("split_keep_middle")
    /\ ~has_column(df_in, column)
    /\ exc = "KeyError"
    /\ df_in.data # << >>

\* C10 (as stated): clean_col_name, given pairwise distinct column names,
\* returns the same columns in the same order, each name lower-cased with
\* spaces turned into underscores and st turned into state, and the returned
\* names are pairwise distinct.
NormalName(name) ==
    LET n == [i \in 1..Len(name) |-> IF name[i] = " " THEN "_" ELSE char_lower(name[i])]
    IN  IF n = <<"s", "t">> THEN <<"s", "t", "a", "t", "e">> ELSE n

Distinct(s) == \A i, j \in 1..Len(s) : i # j => s[i] # s[j]

NamesNormalized ==
    /\ ret # 0
    /\ heap[ret].data = df_in.data
    /\ Len(heap[ret].columns) = Len(df_in.columns)
    /\ \A i \in 1..Len(df_in.columns) : heap[ret].columns[i] = NormalName(df_in.columns[i])

C10_NamesStayDistinct ==
    (Done("clean_col_name") /\ Distinct(df_in.columns))
    => (NamesNormalized /\ Distinct(heap[ret].columns))

\* C10 (amended): clean_col_name, given pairwise distinct column names,
\* returns the same columns in the same order, each name lower-cased with
\* spaces turned into underscores and st turned into state; two returned
\* names are equal exactly when the two input names have the same normal
\* form, as ST and State, or Customer Id and customer_id, have.
C10_NamesNormalized ==
    (Done("clean_col_name") /\ Distinct(df_in.columns))
    => /\ NamesNormalized
       /\ \A i, j \in 1..Len(df_in.columns) :
             (heap[ret].columns[i] = heap[ret].columns[j])
             <=> (NormalName(df_in.columns[i]) = NormalName(df_in.columns[j]))

C10_Witness ==
    /\ Returned("clean_col_name")
    /\ df_in.columns = <<<<"C", "u", "s", "t", "o", "m", "e", "r", " ", "I", "d">>, <<"c", "u", "s", "t", "o", "m", "e", "r", "_", "i", "d">>>>
    /\ heap[ret].columns = <<<<"c", "u", "s", "t", "o", "m", "e", "r", "_", "i", "d">>, <<"c", "u", "s", "t", "o", "m", "e", "r", "_", "i", "d">>>>
====
